---- MODULE Spec2Model ----
(***************************************************************************)
(* State-machine model of bbot's ScanManager (src/bbot/scanner/manager.py):*)
(* the event pipeline (emit_event / _emit_event), the accepted and         *)
(* distributed ledgers, the dispatcher (distribute_event) and the          *)
(* completion detector (modules_status).                                   *)
(***************************************************************************)
EXTENDS Integers, Sequences, FiniteSets, TLC

(***************************************************************************)
(* Bounds of the model.                                                    *)
(***************************************************************************)
\* number of worker threads of the event pool running _emit_event at once
MaxWorkers == 2
\* largest queue size or task count a status snapshot reports
MaxCount == 1
\* largest explicit passes argument given to modules_status
MaxPasses == 2
\* number of calls of catch() a module thread makes
MaxCatchCalls == 2

(***************************************************************************)
(* Scan configuration (scan.config values read by the manager).            *)
(***************************************************************************)
scope_search_distance == 2
scope_report_distance == 1
dns_search_distance == 2

(***************************************************************************)
(* The events of a scan.  Event 0 is scan.root_event; the others are the   *)
(* event objects a scan can build: those modules hand to emit_event and    *)
(* those _emit_event builds itself (the speculated DNS_NAME of a host and  *)
(* the DNS children of the resolver).  Two objects with the same type,     *)
(* data and module are the "same event" for Python's == and hash().        *)
(***************************************************************************)
Root == 0

BaseEvent ==
  [type |-> "IP_ADDRESS", data |-> "1.2.3.4", module |-> "modA", module_type |-> "scan",
   suppress_dupes |-> TRUE, source |-> Root, host |-> TRUE, force_output |-> FALSE,
   dummy |-> FALSE, target |-> FALSE, whitelisted |-> FALSE, blacklisted |-> FALSE,
   wanted |-> TRUE, sd0 |-> -1, made_by |-> Root, valid |-> TRUE]

Event(e) ==
  CASE e = 1 -> BaseEvent
    [] e = 2 -> BaseEvent
    [] e = 3 -> [BaseEvent EXCEPT !.type = "URL", !.data = "http://evil.com/"]
    [] e = 4 -> [BaseEvent EXCEPT !.type = "DNS_NAME", !.data = "example.com",
                                  !.module = "TARGET", !.target = TRUE, !.whitelisted = TRUE]
    [] e = 5 -> [BaseEvent EXCEPT !.type = "DNS_NAME", !.data = "evil.com", !.module = "host",
                                  !.module_type = "internal", !.source = 3, !.made_by = 3]
    [] e = 6 -> [BaseEvent EXCEPT !.type = "DNS_NAME", !.data = "ns.shared.com", !.module = "NS",
                                  !.module_type = "DNS", !.source = 5, !.made_by = 3]
    [] e = 7 -> [BaseEvent EXCEPT !.type = "DNS_NAME", !.data = "ns.shared.com", !.module = "NS",
                                  !.module_type = "DNS", !.source = 4, !.made_by = 4]
    [] e = 8 -> [BaseEvent EXCEPT !.type = "DNS_NAME", !.data = "ns.shared.com", !.module = "NS",
                                  !.module_type = "DNS", !.source = 4]
    [] e = 9 -> [BaseEvent EXCEPT !.type = "ORG_STUB", !.data = "evilcorp", !.host = FALSE]
    [] e = 10 -> [BaseEvent EXCEPT !.force_output = TRUE, !.sd0 = 3]
    [] e = 11 -> [BaseEvent EXCEPT !.data = "dummy", !.dummy = TRUE]
    [] e = 12 -> [BaseEvent EXCEPT !.type = "DNS_NAME", !.data = "example.com",
                                   !.module = "TARGET", !.target = TRUE, !.whitelisted = TRUE]
    [] e = 13 -> [BaseEvent EXCEPT !.data = "6.6.6.6", !.blacklisted = TRUE]
    [] e = 14 -> [BaseEvent EXCEPT !.type = "ORG_STUB", !.data = "example", !.host = FALSE,
                                   !.module = "TARGET", !.target = TRUE, !.whitelisted = TRUE]
    [] e = 15 -> [BaseEvent EXCEPT !.type = "DNS_NAME", !.data = "bad.com", !.blacklisted = TRUE]
    [] e = 16 -> [BaseEvent EXCEPT !.type = "DNS_NAME", !.data = "ns.bad.com", !.module = "NS",
                                   !.module_type = "DNS", !.source = 15, !.made_by = 15,
                                   !.blacklisted = TRUE]
    [] e = 17 -> [BaseEvent EXCEPT !.type = "DNS_NAME", !.data = "mail.good.com", !.module = "MX",
                                   !.module_type = "DNS", !.source = 15, !.made_by = 15]
    [] e = 18 -> [BaseEvent EXCEPT !.type = "DNS_NAME", !.data = "not a name", !.module = "TXT",
                                   !.module_type = "DNS", !.source = 15, !.made_by = 15,
                                   !.valid = FALSE]
    [] e = 19 -> [BaseEvent EXCEPT !.type = "URL", !.data = "http://far.com/", !.source = 1]
    [] e = 20 -> [BaseEvent EXCEPT !.type = "DNS_NAME", !.data = "far.com", !.module = "host",
                                   !.module_type = "internal", !.source = 19, !.made_by = 19]
    [] e = 21 -> [BaseEvent EXCEPT !.type = "DNS_NAME", !.data = "ns.far.com", !.module = "NS",
                                   !.module_type = "DNS", !.source = 20, !.made_by = 19]
    [] OTHER -> [BaseEvent EXCEPT !.type = "SCAN", !.data = "scan", !.module = "TARGET",
                                  !.host = FALSE, !.sd0 = 0]

Events == 1..21
\* the events modules pass to emit_event; the rest are built by _emit_event
ModuleEvents == {e \in Events : Event(e).made_by = Root}

\* The scans checked: the events the scan's modules may emit, and its configuration.
Scan(events, dns, blacklist) ==
  [events |-> events, dns_resolution |-> dns, have_blacklist |-> blacklist]

Scans ==
  { Scan({1, 2, 10}, TRUE, TRUE),   \* the same IP_ADDRESS three times, once force-output
    Scan({3, 4}, TRUE, TRUE),       \* a URL and a target, with their DNS children
    Scan({4, 8}, TRUE, TRUE),       \* a target, and an event equal to its DNS child
    Scan({4, 12, 14}, TRUE, FALSE), \* the same whitelisted target twice, a hostless target
    Scan({4, 12}, FALSE, FALSE),    \* the same, with DNS resolution skipped for targets
    Scan({9, 11, 13}, FALSE, TRUE), \* a hostless, a dummy and a blacklisted event
    Scan({15}, TRUE, TRUE),         \* a blacklisted name with DNS children
    Scan({9}, FALSE, TRUE),         \* a single hostless event
    Scan({1, 19}, TRUE, TRUE) }     \* an IP_ADDRESS and a URL a module found through it

VARIABLES
  module_events,      \* the events the modules of this scan may pass to emit_event
  dns_resolution,     \* ScanManager.dns_resolution (scan.config)
  have_blacklist,     \* truthiness of scan.blacklist
  stopping,           \* scan.stopping
  scan_status,        \* scan.status
  dist_after_abort,   \* number of distribute_event calls made since the scan is ABORTING
  pool_shutdown,      \* scan._event_thread_pool no longer takes tasks
  pc,                 \* per event: where its emit_event handling stands
  opts,               \* per event: the options of its emit_event call
  scope_distance,     \* event.scope_distance
  blacklisted_tag,    \* events with "blacklisted" in event.tags
  resolved,           \* events whose _resolved signal is set
  released,           \* per event: number of release_semaphore() calls
  events_accepted,    \* ScanManager.events_accepted
  accept_log,         \* the accept_event calls made, in lock order, with their results
  event_queue,        \* ScanManager.event_queue
  queued_event_types, \* ScanManager.queued_event_types
  counter_read,       \* per event: the counter value its queue_event call read at line 292
  events_distributed, \* ScanManager.events_distributed
  mod_queue,          \* per registered module: its inbound event queue
  last_dist,          \* the last distribute_event call: its event, dup flag, number,
                      \* and whether it raised
  event_emitted,      \* per event: number of stats.event_emitted() calls
  on_success_calls,   \* per event: number of calls of its on_success_callback
  run_result,         \* per event: how catch(_emit_event, event) ended
  event_produced,     \* per event: number of stats.event_produced() calls
  status_detailed,    \* scan.status_detailed: queued events and queued tasks
  mod_running,        \* the modules whose status reports running
  mod_events,         \* per module: the incoming and outgoing event counts of its status
  ms_pc,              \* modules_status: "idle" (not running or returned) or "pass"
  ms_passes,          \* modules_status: the local passes
  ms_finished,        \* modules_status: the local finished, status["finished"] at return
  ms_default,         \* modules_status: the call was made with passes=None
  ms_snapshots,       \* what the passes of the last call read, in order
  loop_pc,            \* loop_until_finished: where the driver loop stands
  loop_exit,          \* loop_until_finished: why the while loop was left
  event_counter,      \* loop_until_finished: the local event_counter
  reports,            \* per module: number of report() calls made by the finally block
  report_result,      \* per module: how catch(mod.report, _force=True) ended
  catch_pc,           \* a module thread's call of catch(): "idle", "try" or "finish"
  catch_args,         \* that call: how the callback ends, _force, the _on_finish_callback
  catch_invocations,  \* number of calls of catch() made by the module thread
  function_called,    \* number of stats.function_called() entries of those calls
  on_finish_due,      \* number of those calls given a callable _on_finish_callback
  on_finish_calls,    \* number of calls of an _on_finish_callback
  catch_raised        \* the exception the last call of catch() raised to its caller

vars == <<module_events, dns_resolution, have_blacklist, stopping, pool_shutdown, pc, opts, scope_distance,
          blacklisted_tag, resolved, released, events_accepted, accept_log, event_queue,
          queued_event_types, events_distributed, mod_queue, last_dist, event_emitted,
          on_success_calls, run_result, event_produced, status_detailed, mod_running, mod_events, ms_pc, ms_passes, ms_finished,
          ms_default, ms_snapshots, scan_status, dist_after_abort, loop_pc, loop_exit,
          event_counter, reports, report_result, catch_pc, catch_args, catch_invocations,
          function_called, on_finish_due, on_finish_calls, catch_raised, counter_read>>

catch_vars == <<catch_pc, catch_args, catch_invocations, function_called, on_finish_due,
                on_finish_calls, catch_raised>>
config_vars == <<module_events, dns_resolution, have_blacklist>>
stop_vars == <<stopping, scan_status>>
loop_vars == <<loop_pc, loop_exit, event_counter, reports, report_result>>
ledger_vars == <<events_accepted, accept_log>>
run_vars == <<event_emitted, on_success_calls, run_result>>
queue_vars == <<event_queue, queued_event_types>>
snapshot_vars == <<status_detailed, mod_running, mod_events>>
status_vars == <<ms_pc, ms_passes, ms_finished, ms_default, ms_snapshots>>
dist_vars == <<events_distributed, mod_queue, last_dist, event_produced, dist_after_abort,
               snapshot_vars, status_vars>>

(***************************************************************************)
(* The registered modules (scan.modules) and the attributes                *)
(* distribute_event reads.                                                 *)
(***************************************************************************)
Modules == {"scanmod", "dupscan", "outmod", "graphout"}

Module(m) ==
  CASE m = "scanmod" -> [type |-> "scan", accept_dupes |-> FALSE, emit_graph_trail |-> FALSE]
    [] m = "dupscan" -> [type |-> "scan", accept_dupes |-> TRUE, emit_graph_trail |-> FALSE]
    [] m = "outmod" -> [type |-> "output", accept_dupes |-> FALSE, emit_graph_trail |-> FALSE]
    [] OTHER -> [type |-> "output", accept_dupes |-> TRUE, emit_graph_trail |-> TRUE]

EventTypes == {Event(e).type : e \in Events \cup {Root}}

\* the keys of scan.status_detailed that modules_status reads (lines 459-464)
QueuedEventKeys == {"manager"}
QueuedTaskKeys == {"main", "dns", "event"}

(***************************************************************************)
(* Event identity.  hash(event) is the event's intrinsic identity (type    *)
(* and data); source_id is the identity of the source event.               *)
(***************************************************************************)
EventHash(e) == <<Event(e).type, Event(e).data>>

SourceId(e) == EventHash(Event(e).source)

\* hash_event without the source of DNS-sourced events
hash_event_no_source(e) == <<EventHash(e), Event(e).module>>

hash_event(e) ==
  IF Event(e).module_type = "DNS"
    THEN <<EventHash(e), Event(e).module, SourceId(e)>>
    ELSE <<EventHash(e), Event(e).module>>

\* is_duplicate_event with the force-output test inverted
is_duplicate_event_forced(e, accepted) ==
  LET duplicate_event == Event(e).suppress_dupes /\ hash_event(e) \in accepted
  IN  duplicate_event /\ Event(e).force_output

\* the value is_duplicate_event returns for the ledger contents `accepted`
is_duplicate_event(e, accepted) ==
  LET duplicate_event == Event(e).suppress_dupes /\ hash_event(e) \in accepted
  IN  duplicate_event /\ ~Event(e).force_output

\* is_duplicate_event(event, add=True) that does not register the event
ledger_add_lost(e, accepted) == accepted

\* the ledger after is_duplicate_event(event, add=True)
ledger_add(e, accepted) == accepted \cup {hash_event(e)}

\* accept_event: its return value
accept_event(e, accepted) == ~is_duplicate_event(e, accepted)

_event_precheck(e, accepted) ==
  IF Event(e).dummy THEN FALSE
  ELSE IF Event(e).source = e THEN FALSE
  ELSE IF Event(e).type # "DNS_NAME"
    THEN IF is_duplicate_event(e, accepted) THEN FALSE ELSE Event(e).wanted
  ELSE TRUE

\* scan.whitelisted(event) | event_whitelisted_dns, scan.blacklisted(event) | event_blacklisted_dns
event_whitelisted(e) == Event(e).whitelisted
event_blacklisted(e) == have_blacklist /\ Event(e).blacklisted

NoOpts == [quick |-> FALSE, abort_if |-> "none", on_success |-> FALSE]
\* the events some module emits with an on_success_callback
CallbackEvents == {9, 13}
\* the option sets of an emit_event call: the modules emit the IP_ADDRESS events with
\* quick or abort_if or neither, the URL events with abort_if or without, the other
\* events with neither, and the events of CallbackEvents with or without an
\* on_success_callback
EmitOptions(e) ==
  LET plain == IF Event(e).type = "IP_ADDRESS"
                 THEN { NoOpts, [NoOpts EXCEPT !.quick = TRUE],
                        [NoOpts EXCEPT !.abort_if = "veto"] }
               ELSE IF Event(e).type = "URL"
                 THEN { NoOpts, [NoOpts EXCEPT !.abort_if = "veto"] }
               ELSE { NoOpts }
  IN  IF e \in CallbackEvents
        THEN plain \cup { [o EXCEPT !.on_success = TRUE] : o \in {p \in plain : ~p.quick} }
        ELSE plain

\* no call of catch() under way
NoCatch == [callback |-> "return", force |-> FALSE, on_finish |-> "none"]

Init ==
  /\ \E scan \in Scans :
       /\ module_events = scan.events
       /\ dns_resolution = scan.dns_resolution
       /\ have_blacklist = scan.have_blacklist
  /\ stopping = FALSE
  /\ scan_status = "RUNNING"
  /\ dist_after_abort = 0
  /\ loop_pc = "top"
  /\ loop_exit = "none"
  /\ event_counter = 0
  /\ reports = [m \in Modules |-> 0]
  /\ report_result = [m \in Modules |-> "none"]
  /\ pool_shutdown = FALSE
  /\ pc = [e \in Events |-> "new"]
  /\ opts = [e \in Events |-> NoOpts]
  /\ scope_distance = [e \in Events \cup {Root} |-> Event(e).sd0]
  /\ blacklisted_tag = {}
  /\ resolved = {}
  /\ released = [e \in Events |-> 0]
  /\ events_accepted = {}
  /\ accept_log = <<>>
  /\ event_queue = <<Root>>
  /\ queued_event_types = [t \in EventTypes |-> IF t = "SCAN" THEN 1 ELSE 0]
  /\ counter_read = [e \in Events |-> 0]
  /\ events_distributed = {}
  /\ mod_queue = [m \in Modules |-> <<>>]
  /\ last_dist = [event |-> -1, dup |-> FALSE, seq |-> 0, raised |-> FALSE]
  /\ event_emitted = [e \in Events |-> 0]
  /\ on_success_calls = [e \in Events |-> 0]
  /\ run_result = [e \in Events |-> "none"]
  /\ event_produced = [e \in Events \cup {Root} |-> 0]
  /\ status_detailed = [queued_events |-> [k \in QueuedEventKeys |-> 0],
                        queued_tasks |-> [k \in QueuedTaskKeys |-> 0]]
  /\ mod_running = {}
  /\ mod_events = [m \in Modules |-> [incoming |-> 0, outgoing |-> 0]]
  /\ ms_pc = "idle"
  /\ ms_passes = 0
  /\ ms_finished = FALSE
  /\ ms_default = FALSE
  /\ ms_snapshots = <<>>
  /\ catch_pc = "idle"
  /\ catch_args = NoCatch
  /\ catch_invocations = 0
  /\ function_called = 0
  /\ on_finish_due = 0
  /\ on_finish_calls = 0
  /\ catch_raised = "none"

(***************************************************************************)
(* emit_event.                                                             *)
(***************************************************************************)
\* which exit emit_event takes for event e called with options o
EmitPath(e, o, accepted, shutdown) ==
  IF ~_event_precheck(e, accepted) THEN "precheck"
  ELSE IF o.quick THEN "quick"
  ELSE IF shutdown THEN "submit_failed"
  ELSE "submitted"

\* release_semaphore() and _resolved.set() of emit_event's synchronous exits
emit_event_released(e, path, rel) ==
  IF path \in {"precheck", "quick", "submit_failed"} THEN [rel EXCEPT ![e] = @ + 1] ELSE rel

emit_event_resolved(e, path, res) ==
  IF path \in {"precheck", "quick", "submit_failed"} THEN res \cup {e} ELSE res

\* emit_event(event, **options) called by a module
EmitEvent(e, o) ==
  /\ pc[e] = "new"
  /\ e \in module_events
  \* a module builds an event from an event it was handed
  /\ IF Event(e).source = Root THEN TRUE ELSE pc[Event(e).source] = "done"
  /\ LET path == EmitPath(e, o, events_accepted, pool_shutdown)
     IN  /\ pc' = [pc EXCEPT ![e] = IF path = "submitted" THEN "pending" ELSE "done"]
         /\ opts' = [opts EXCEPT ![e] = o]
         /\ released' = emit_event_released(e, path, released)
         /\ resolved' = emit_event_resolved(e, path, resolved)
         /\ IF path = "quick"
              THEN /\ event_queue' = Append(event_queue, e)
                   /\ queued_event_types' =
                        [queued_event_types EXCEPT ![Event(e).type] = @ + 1]
              ELSE UNCHANGED queue_vars
  /\ UNCHANGED <<catch_vars, counter_read, config_vars, stop_vars, loop_vars, pool_shutdown, scope_distance, blacklisted_tag,
                 ledger_vars, dist_vars, run_vars>>

(***************************************************************************)
(* _emit_event, run by a pool worker through catch().  The run is cut at   *)
(* the points where it reads or writes state shared with other threads.    *)
(***************************************************************************)
Running == {e \in Events : pc[e] \in {"wait", "shepherd", "decide", "queue", "queue_read"}}

\* line 107
skip_dns_resolution(e) == (~dns_resolution) /\ Event(e).target /\ ~have_blacklist

\* line 138: the run goes through the parent-synchronization wait
must_wait(e) == ~event_whitelisted(e) \/ ~Event(e).target

\* helpers.dns.resolve_event(event): the resolver fires the event's _resolved signal
\* when it is done with the event, whether it returns or raises
resolve_event_signal(e, res) == res \cup {e}

\* catch() without its _force argument
catch_calls_unforced(is_stopping, force) == ~is_stopping

\* catch(), line 261: whether the callback is called
catch_calls(is_stopping, force) == ~is_stopping \/ force

\* catch(), lines 260-272: what becomes of the way the callback ended.  Nothing is
\* raised to the caller of catch().
catch_result(ending) ==
  CASE ending = "not called" -> "skipped"
    [] ending = "return" -> "returned"
    [] ending = "ScanCancelledError" -> "debug: cancelled"
    [] ending = "BrokenPipeError" -> "debug: broken pipe"
    [] ending = "KeyboardInterrupt" -> "debug: interrupted"
    [] OTHER -> "error: logged"

\* the finally block of _emit_event for a run that did not queue the event
Finally(e) ==
  /\ released' = [released EXCEPT ![e] = @ + 1]
  /\ pc' = [pc EXCEPT ![e] = "done"]

\* A worker takes the task: catch() calls _emit_event unless the scan is stopping;
\* _emit_event then runs up to the blacklist purging (lines 99-135).
RunStart(e) ==
  /\ pc[e] = "pending"
  /\ Cardinality(Running) < MaxWorkers
  /\ IF ~catch_calls(stopping, FALSE)
       THEN \* catch(): callback not called
            /\ pc' = [pc EXCEPT ![e] = "done"]
            /\ run_result' = [run_result EXCEPT ![e] = catch_result("not called")]
            /\ UNCHANGED <<resolved, released, blacklisted_tag>>
       ELSE IF skip_dns_resolution(e)
         THEN /\ resolved' = resolved \cup {e}
              /\ pc' = [pc EXCEPT ![e] = "decide"]
              /\ UNCHANGED <<released, blacklisted_tag, run_result>>
         ELSE \E raises \in BOOLEAN :
                IF raises
                  THEN \* resolve_event raises: the finally block runs, catch() logs
                       /\ Finally(e)
                       /\ run_result' = [run_result EXCEPT ![e] = catch_result("Exception")]
                       /\ resolved' = resolve_event_signal(e, resolved)
                       /\ UNCHANGED blacklisted_tag
                  ELSE /\ resolved' = resolve_event_signal(e, resolved)
                       /\ blacklisted_tag' = IF event_blacklisted(e)
                                               THEN blacklisted_tag \cup {e}
                                               ELSE blacklisted_tag
                       /\ pc' = [pc EXCEPT ![e] = IF must_wait(e) THEN "wait" ELSE "shepherd"]
                       /\ UNCHANGED <<released, run_result>>
  /\ UNCHANGED <<catch_vars, counter_read, config_vars, stop_vars, loop_vars, pool_shutdown, opts, scope_distance, ledger_vars,
                 queue_vars, dist_vars, event_emitted, on_success_calls>>

\* a signal that nothing sets
waited_signal_unset(e) == -1

\* the signal the loop of lines 139-146 waits on
waited_signal(e) == e

\* one poll that does not look at scan.stopping
poll_without_stop_check(is_stopping, signal_set) ==
  IF signal_set THEN "resolved" ELSE "timeout"

\* lines 140-143: how one poll of the wait loop ends
poll(is_stopping, signal_set) ==
  IF is_stopping THEN "ScanCancelledError"
  ELSE IF signal_set THEN "resolved"
  ELSE "timeout"

\* One poll of the wait loop (lines 139-146) that ends the loop.
WaitPoll(e) ==
  /\ pc[e] = "wait"
  /\ LET outcome == poll(stopping, waited_signal(e) \in resolved)
     IN  /\ outcome # "timeout"
         /\ IF outcome = "ScanCancelledError"
              THEN /\ Finally(e)
                   /\ run_result' = [run_result EXCEPT ![e] = catch_result(outcome)]
                   /\ UNCHANGED scope_distance
              ELSE /\ scope_distance' =
                        [scope_distance EXCEPT ![e] = scope_distance[Event(e).source] + 1]
                   /\ pc' = [pc EXCEPT ![e] = "shepherd"]
                   /\ UNCHANGED <<released, run_result>>
  /\ UNCHANGED <<catch_vars, counter_read, config_vars, stop_vars, loop_vars, pool_shutdown, opts, blacklisted_tag, resolved,
                 ledger_vars, queue_vars, dist_vars, event_emitted, on_success_calls>>

\* Event.make_in_scope(set_scope_distance)
make_in_scope(e, set_scope_distance, sd) == [sd EXCEPT ![e] = set_scope_distance]

\* Event.make_internal()
make_internal(e, sd) == sd

\* scope shepherding that does not reset the distance of whitelisted events
shepherd_keeps_distance(e, accepted, sd) ==
  LET event_is_duplicate == is_duplicate_event(e, accepted)
      event_in_report_distance == sd[e] <= scope_report_distance
      set_scope_distance == sd[e]
  IN  IF Event(e).host
        THEN IF (event_whitelisted(e) \/ event_in_report_distance) /\ ~event_is_duplicate
               THEN make_in_scope(e, set_scope_distance, sd)
               ELSE IF sd[e] > scope_report_distance THEN make_internal(e, sd) ELSE sd
        ELSE make_in_scope(e, set_scope_distance, sd)

\* scope shepherding, lines 149-167: the scope distances it leaves
shepherd(e, accepted, sd) ==
  LET event_is_duplicate == is_duplicate_event(e, accepted)
      event_in_report_distance == sd[e] <= scope_report_distance
      set_scope_distance == IF event_whitelisted(e) THEN 0 ELSE sd[e]
  IN  IF Event(e).host
        THEN IF (event_whitelisted(e) \/ event_in_report_distance) /\ ~event_is_duplicate
               THEN make_in_scope(e, set_scope_distance, sd)
               ELSE IF sd[e] > scope_report_distance THEN make_internal(e, sd) ELSE sd
        ELSE make_in_scope(e, 0, sd)

Shepherd(e) ==
  /\ pc[e] = "shepherd"
  /\ scope_distance' = shepherd(e, events_accepted, scope_distance)
  /\ pc' = [pc EXCEPT ![e] = "decide"]
  /\ UNCHANGED <<catch_vars, counter_read, config_vars, stop_vars, loop_vars, pool_shutdown, opts, blacklisted_tag, resolved,
                 released, ledger_vars, queue_vars, dist_vars, run_vars>>

\* abort_if that is never consulted
aborts_never(o) == FALSE

\* line 170: callable(abort_if) and abort_if(event)
aborts(o) == o.abort_if = "veto"

\* lines 170-175: abort_if, then accept_event
Decide(e) ==
  /\ pc[e] = "decide"
  /\ IF aborts(opts[e])
       THEN /\ Finally(e)
            /\ run_result' = [run_result EXCEPT ![e] = catch_result("return")]
            /\ UNCHANGED ledger_vars
       ELSE /\ events_accepted' = ledger_add(e, events_accepted)
            /\ accept_log' = Append(accept_log, <<e, accept_event(e, events_accepted)>>)
            /\ IF accept_event(e, events_accepted)
                 THEN /\ pc' = [pc EXCEPT ![e] = "queue"]
                      /\ UNCHANGED <<released, run_result>>
                 ELSE /\ Finally(e)
                      /\ run_result' = [run_result EXCEPT ![e] = catch_result("return")]
  /\ UNCHANGED <<catch_vars, counter_read, config_vars, stop_vars, loop_vars, pool_shutdown, opts, scope_distance, blacklisted_tag,
                 resolved, queue_vars, dist_vars, event_emitted, on_success_calls>>

\* the local emit_event when the blacklist purging is left out
emit_flag_always(e) == TRUE

\* the local emit_event of _emit_event (lines 99, 135)
emit_flag(e) == e \notin blacklisted_tag

\* lines 182-183 and catch() line 261: whether the on_success_callback is called
calls_on_success(o, emitted, is_stopping) == o.on_success /\ catch_calls(is_stopping, FALSE)

\* the finally block reporting every run
reports_emitted_always(emitted) == TRUE

\* lines 218-219: whether the finally block reports the event to stats.event_emitted
reports_emitted(emitted) == emitted

\* line 189: the DNS_NAME event speculated from the event's host
Speculated(e) ==
  IF Event(e).host /\ Event(e).type \notin {"DNS_NAME", "IP_ADDRESS", "IP_RANGE"}
    THEN {c \in Events : Event(c).made_by = e /\ Event(c).module = "host"}
    ELSE {}

\* lines 197-210: the DNS children passed to emit_event
DnsChildren(e, sd) ==
  LET emit_children == -1 < sd[e] /\ sd[e] < dns_search_distance
  IN  IF dns_resolution /\ emit_children
        THEN {c \in Events : Event(c).made_by = e /\ Event(c).module_type = "DNS"
                               /\ Event(c).valid}
        ELSE {}

\* queue_event, line 292: the run reads the counter of the event's type; the
\* increment and the store follow in QueueStep
QueueRead(e) ==
  /\ pc[e] = "queue"
  /\ emit_flag(e)
  /\ pc' = [pc EXCEPT ![e] = "queue_read"]
  /\ counter_read' = [counter_read EXCEPT ![e] = queued_event_types[Event(e).type]]
  /\ UNCHANGED <<catch_vars, config_vars, stop_vars, loop_vars, pool_shutdown, opts,
                 scope_distance, blacklisted_tag, resolved, released, ledger_vars, queue_vars,
                 dist_vars, run_vars>>

\* lines 291-294: the counter after the store of the value read plus one (a type
\* without a key reads as 0)
counter_store(e, read, counter) == [counter EXCEPT ![Event(e).type] = read + 1]

\* lines 177-220: queue_event (lines 178-180), child emission (185-210), then the
\* finally block (216-220).  A run that has not read the counter yet reads it here.
QueueStep(e) ==
  /\ pc[e] \in {"queue", "queue_read"}
  /\ \E queue_raises \in {FALSE, emit_flag(e) /\ pc[e] = "queue"} :
       IF queue_raises
         THEN \* scan.make_event in queue_event raises ValidationError (caught at line 212)
              /\ Finally(e)
              /\ run_result' = [run_result EXCEPT ![e] = catch_result("return")]
              /\ event_emitted' = IF reports_emitted(FALSE)
                                     THEN [event_emitted EXCEPT ![e] = @ + 1]
                                     ELSE event_emitted
              /\ UNCHANGED <<queue_vars, scope_distance, resolved, on_success_calls>>
         ELSE
           /\ IF emit_flag(e)
                THEN /\ event_queue' = Append(event_queue, e)
                     /\ queued_event_types' =
                          counter_store(e, IF pc[e] = "queue_read"
                                             THEN counter_read[e]
                                             ELSE queued_event_types[Event(e).type],
                                        queued_event_types)
                ELSE UNCHANGED queue_vars
           /\ on_success_calls' = IF calls_on_success(opts[e], emit_flag(e), stopping)
                                     THEN [on_success_calls EXCEPT ![e] = @ + 1]
                                     ELSE on_success_calls
           /\ LET kids == Speculated(e) \cup DnsChildren(e, scope_distance)
                  path(c) == EmitPath(c, NoOpts, events_accepted, pool_shutdown)
              IN  /\ scope_distance' = [c \in DOMAIN scope_distance |->
                                          IF c \in Speculated(e) THEN scope_distance[e]
                                          ELSE scope_distance[c]]
                  /\ pc' = [c \in Events |->
                              IF c = e THEN "done"
                              ELSE IF c \in kids
                                THEN (IF path(c) = "submitted" THEN "pending" ELSE "done")
                              ELSE pc[c]]
                  /\ released' = [c \in Events |->
                              IF c = e THEN released[c] + 1
                              ELSE IF c \in kids
                                THEN emit_event_released(c, path(c), released)[c]
                              ELSE released[c]]
                  /\ resolved' = resolved \cup {c \in kids : path(c) # "submitted"}
           /\ event_emitted' = IF reports_emitted(emit_flag(e))
                                  THEN [event_emitted EXCEPT ![e] = @ + 1]
                                  ELSE event_emitted
           /\ run_result' = [run_result EXCEPT ![e] = catch_result("return")]
  /\ counter_read' = [counter_read EXCEPT ![e] = 0]
  /\ UNCHANGED <<catch_vars, config_vars, stop_vars, loop_vars, pool_shutdown, opts, blacklisted_tag, ledger_vars,
                 dist_vars>>

(***************************************************************************)
(* The scan being stopped: scan.stop() sets the stopping flag, then shuts  *)
(* the pools down.                                                         *)
(***************************************************************************)
StopScan ==
  /\ ~stopping
  /\ stopping' = TRUE
  /\ scan_status' = "ABORTING"
  /\ UNCHANGED <<catch_vars, counter_read, config_vars, loop_vars, pool_shutdown, pc, opts, scope_distance, blacklisted_tag,
                 resolved, released, ledger_vars, queue_vars, dist_vars, run_vars>>

ShutdownPool ==
  /\ stopping
  /\ ~pool_shutdown
  /\ pool_shutdown' = TRUE
  /\ UNCHANGED <<catch_vars, counter_read, config_vars, stop_vars, loop_vars, pc, opts, scope_distance, blacklisted_tag,
                 resolved, released, ledger_vars, queue_vars, dist_vars, run_vars>>

(***************************************************************************)
(* catch(callback, _force=..., _on_finish_callback=...) called by a module *)
(* thread.  The callback returns or raises; so does the finish callback.   *)
(***************************************************************************)
CallbackEndings ==
  {"return", "ScanCancelledError", "BrokenPipeError", "Exception", "KeyboardInterrupt"}

OnFinishCallbacks == {"none", "return", "Exception"}

\* the except clauses without the one for Exception
catch_handles_no_exception_clause(ending) ==
  ending \in {"ScanCancelledError", "BrokenPipeError", "KeyboardInterrupt"}

\* lines 263-272: the exceptions of the callback that an except clause takes
catch_handles(ending) ==
  ending \in {"ScanCancelledError", "BrokenPipeError", "Exception", "KeyboardInterrupt"}

\* lines 279-283: the exceptions of the finish callback that are taken
on_finish_handles(ending) == ending = "Exception"

\* everything but the state of the module thread's catch() call and the stop flags
scan_vars == <<counter_read, config_vars, loop_vars, pool_shutdown, pc, opts, scope_distance,
               blacklisted_tag, resolved, released, ledger_vars, queue_vars, dist_vars,
               run_vars>>

\* lines 251-259: catch() is entered
CatchCall(callback, force, on_finish) ==
  /\ catch_pc = "idle"
  /\ catch_invocations < MaxCatchCalls
  /\ catch_pc' = "try"
  /\ catch_args' = [callback |-> callback, force |-> force, on_finish |-> on_finish]
  /\ catch_invocations' = catch_invocations + 1
  /\ on_finish_due' = IF on_finish # "none" THEN on_finish_due + 1 ELSE on_finish_due
  /\ catch_raised' = "none"
  /\ UNCHANGED <<scan_vars, stop_vars, function_called, on_finish_calls>>

\* lines 260-274: the try statement with its except clauses and its finally block
CatchTry ==
  /\ catch_pc = "try"
  /\ LET called == catch_calls(stopping, catch_args.force)
         ending == IF called THEN catch_args.callback ELSE "not called"
         failed == called /\ ending # "return"
         raised == failed /\ ~catch_handles(ending)
     IN  /\ IF failed /\ ~raised /\ ending = "KeyboardInterrupt"
              THEN \* scan.stop()
                   /\ stopping' = TRUE
                   /\ scan_status' = "ABORTING"
              ELSE UNCHANGED stop_vars
         /\ function_called' = function_called + 1
         /\ catch_raised' = IF raised THEN ending ELSE "none"
         /\ catch_pc' = IF raised THEN "idle" ELSE "finish"
  /\ UNCHANGED <<scan_vars, catch_args, catch_invocations, on_finish_due, on_finish_calls>>

\* lines 275-284: the finish callback, then the return
CatchFinish ==
  /\ catch_pc = "finish"
  /\ on_finish_calls' = IF catch_args.on_finish # "none" THEN on_finish_calls + 1
                                                         ELSE on_finish_calls
  /\ catch_raised' = IF catch_args.on_finish \in {"none", "return"}
                          \/ on_finish_handles(catch_args.on_finish)
                        THEN "none" ELSE catch_args.on_finish
  /\ catch_pc' = "idle"
  /\ UNCHANGED <<scan_vars, stop_vars, catch_args, catch_invocations, function_called,
                 on_finish_due>>

(***************************************************************************)
(* distribute_event, called by loop_until_finished for each event it takes *)
(* off the central queue.                                                  *)
(***************************************************************************)
\* lines 315-326: whether module m is handed the event
\* as delivers, with the report distance applied to every module and no graph trail
delivers_by_report_distance(m, e, dup, sd) ==
  /\ (~dup \/ Module(m).accept_dupes)
  /\ -1 < sd /\ sd <= scope_report_distance

delivers(m, e, dup, sd) ==
  LET event_within_scope_distance == -1 < sd /\ sd <= scope_search_distance
      event_within_report_distance == -1 < sd /\ sd <= scope_report_distance
  IN  /\ (~dup \/ Module(m).accept_dupes)
      /\ IF Module(m).type = "output"
           THEN event_within_report_distance
                  \/ (Event(e).force_output /\ Module(m).emit_graph_trail)
           ELSE event_within_scope_distance

\* lines 313-323: whether this call reports the event to stats.event_produced
reports_produced(e, dup, sd) ==
  \E m \in Modules : Module(m).type = "output" /\ delivers(m, e, dup, sd)

distribute_event(e) ==
  LET dup == EventHash(e) \in events_distributed
      sd == scope_distance[e]
  IN  /\ events_distributed' = events_distributed \cup {EventHash(e)}
      /\ mod_queue' = [m \in Modules |->
                         IF delivers(m, e, dup, sd) THEN Append(mod_queue[m], e)
                         ELSE mod_queue[m]]
      /\ event_produced' = IF reports_produced(e, dup, sd)
                             THEN [event_produced EXCEPT ![e] = @ + 1]
                             ELSE event_produced
      /\ last_dist' = [event |-> e, dup |-> dup, seq |-> last_dist.seq + 1, raised |-> FALSE]

(***************************************************************************)
(* modules_status.  The snapshots it reads (scan.status_detailed and each  *)
(* module's status) come from the scan and the modules; here they change   *)
(* freely between passes.                                                  *)
(***************************************************************************)
pipeline_vars == <<catch_vars, counter_read, config_vars, stop_vars, pool_shutdown, pc, opts, scope_distance,
                   blacklisted_tag, resolved, released, ledger_vars, queue_vars,
                   events_distributed, mod_queue, last_dist, event_produced, dist_after_abort,
                   run_vars>>

\* line 403
DefaultPasses == 5

\* the scan and the modules get busy or idle
Activity ==
  /\ \/ /\ \E k \in QueuedEventKeys, n \in 0..MaxCount :
              status_detailed' = [status_detailed EXCEPT !.queued_events[k] = n]
        /\ UNCHANGED mod_running
     \/ /\ \E k \in QueuedTaskKeys, n \in 0..MaxCount :
              status_detailed' = [status_detailed EXCEPT !.queued_tasks[k] = n]
        /\ UNCHANGED mod_running
     \/ /\ \E m \in Modules :
              mod_running' = IF m \in mod_running THEN mod_running \ {m}
                             ELSE mod_running \cup {m}
        /\ UNCHANGED status_detailed
  /\ UNCHANGED <<pipeline_vars, status_vars, loop_vars, mod_events>>

\* the modules whose status shows queued events
QueueingModules == {"scanmod", "outmod"}

\* a module's inbound or outbound queue fills or drains
ModuleQueueActivity ==
  /\ \E m \in QueueingModules, n \in 0..MaxCount :
       \/ mod_events' = [mod_events EXCEPT ![m].incoming = n]
       \/ mod_events' = [mod_events EXCEPT ![m].outgoing = n]
  /\ UNCHANGED <<pipeline_vars, status_vars, loop_vars, status_detailed, mod_running>>

Max(a, b) == IF a >= b THEN a ELSE b

\* the passes argument: None (the default) or an integer
PassesArgs == {[none |-> TRUE, n |-> 0]} \cup {[none |-> FALSE, n |-> k] : k \in 0..MaxPasses}

\* lines 402-407: modules_status(passes=p) is entered
ModulesStatusCall(p) ==
  /\ ms_pc = "idle"
  /\ ms_passes' = IF p.none THEN DefaultPasses ELSE Max(1, p.n)
  /\ ms_default' = p.none
  /\ ms_finished' = TRUE
  /\ ms_snapshots' = <<>>
  /\ ms_pc' = "pass"
  /\ UNCHANGED <<pipeline_vars, snapshot_vars>>

\* as pass_finished, without the look at the modules' running flags
pass_finished_ignoring_running(finished, detailed, running) ==
  IF \E k \in DOMAIN detailed.queued_events : detailed.queued_events[k] > 0 THEN FALSE
  ELSE IF \E k \in DOMAIN detailed.queued_tasks : detailed.queued_tasks[k] > 0 THEN FALSE
  ELSE finished

\* lines 412-424: what one pass makes of finished
pass_finished(finished, detailed, running) ==
  IF \E k \in DOMAIN detailed.queued_events : detailed.queued_events[k] > 0 THEN FALSE
  ELSE IF \E k \in DOMAIN detailed.queued_tasks : detailed.queued_tasks[k] > 0 THEN FALSE
  ELSE IF running # {} THEN FALSE
  ELSE finished

\* what a pass saw: some queue count positive, some task count positive, some module running
Reading(detailed, running) ==
  [queued_events |-> \E k \in QueuedEventKeys : detailed.queued_events[k] # 0,
   queued_tasks |-> \E k \in QueuedTaskKeys : detailed.queued_tasks[k] # 0,
   running |-> \E m \in Modules : m \in running]

\* lines 431-435: whether the loop goes on to another pass (after the sleep)
another_pass(finished, passes) == finished /\ passes > 0

\* lines 408-437: one pass of the while loop, in which scan.status_detailed is
\* `detailed`; the call returns when it breaks
ModulesStatusPassReading(detailed) ==
  /\ ms_pc = "pass"
  /\ LET finished == pass_finished(ms_finished, detailed, mod_running)
         passes == ms_passes - 1
     IN  /\ ms_finished' = finished
         /\ ms_passes' = passes
         /\ ms_pc' = IF another_pass(finished, passes) THEN "pass" ELSE "idle"
  /\ ms_snapshots' = Append(ms_snapshots, Reading(detailed, mod_running))
  /\ UNCHANGED <<pipeline_vars, snapshot_vars, ms_default, loop_vars>>

ModulesStatusPass == ModulesStatusPassReading(status_detailed)

(***************************************************************************)
(* loop_until_finished, the driver loop.  The periodic status log (lines   *)
(* 350-355) and the events of the "python" module (lines 357-359) are left *)
(* out.                                                                    *)
(***************************************************************************)
worker_vars == <<catch_vars, counter_read, config_vars, pool_shutdown, pc, opts, scope_distance, blacklisted_tag,
                 resolved, released, ledger_vars, queued_event_types, run_vars>>

\* a loop that does not look at the scan status
aborting_ignored(status) == FALSE

\* line 341
aborting(status) == status = "ABORTING"

\* lines 341-348: the top of an iteration; when the scan is ABORTING the queue is
\* emptied and the loop left
LoopTop ==
  /\ loop_pc = "top"
  /\ IF aborting(scan_status)
       THEN /\ event_queue' = <<>>
            /\ loop_pc' = "report"
            /\ loop_exit' = "aborting"
       ELSE /\ loop_pc' = "get"
            /\ UNCHANGED <<event_queue, loop_exit>>
  /\ UNCHANGED <<worker_vars, stop_vars, events_distributed, mod_queue, last_dist,
                 event_produced, dist_after_abort, snapshot_vars, status_vars, event_counter,
                 reports, report_result>>

\* lines 361-363 and 385: take an event off the queue and distribute it
LoopDistribute ==
  /\ loop_pc = "get"
  /\ event_queue # <<>>
  /\ event_queue' = Tail(event_queue)
  /\ event_counter' = event_counter + 1
  /\ distribute_event(Head(event_queue))
  /\ dist_after_abort' = IF scan_status = "ABORTING" THEN dist_after_abort + 1
                                                       ELSE dist_after_abort
  /\ loop_pc' = "top"
  /\ UNCHANGED <<worker_vars, stop_vars, snapshot_vars, status_vars, loop_exit, reports,
                 report_result>>

\* lines 364-365: the queue stayed empty for the timeout; modules_status() is called
LoopEmpty ==
  /\ loop_pc = "get"
  /\ event_queue = <<>>
  /\ ModulesStatusCall([none |-> TRUE, n |-> 0])
  /\ loop_pc' = "status"
  /\ UNCHANGED <<loop_exit, event_counter, reports, report_result>>

\* the sentinel queued to the modules at line 376
FINISHED == -2

\* a loop that goes on whatever modules_status() reports
after_status_continue(finished, counter) == "continue"

\* lines 365-382: what the loop does with the result of modules_status()
after_status(finished, counter) ==
  IF finished THEN "break"
  ELSE IF finished
    THEN IF counter > 0 THEN "finishing" ELSE "break"
  ELSE "continue"

LoopStatusReturn ==
  /\ loop_pc = "status"
  /\ ms_pc = "idle"
  /\ LET todo == after_status(ms_finished, event_counter)
     IN  /\ loop_pc' = IF todo = "break" THEN "report" ELSE "top"
         /\ loop_exit' = IF todo = "break" THEN "finished" ELSE loop_exit
         /\ scan_status' = IF todo = "finishing" THEN "FINISHING" ELSE scan_status
         /\ mod_queue' = IF todo = "finishing"
                            THEN [m \in Modules |-> Append(mod_queue[m], FINISHED)]
                            ELSE mod_queue
         /\ event_counter' = IF todo = "finishing" THEN 0 ELSE event_counter
  /\ UNCHANGED <<worker_vars, stopping, event_queue, events_distributed, last_dist,
                 event_produced, dist_after_abort, snapshot_vars, status_vars, reports,
                 report_result>>

\* scan.modules.values(): the order in which the loops over the modules go
ModuleOrder == <<"scanmod", "dupscan", "outmod", "graphout">>

\* the modules whose queue_event() may raise
FailingQueues == {"dupscan", "outmod"}

\* position of module m in scan.modules
ModulePosition(m) == CHOOSE i \in 1..Len(ModuleOrder) : ModuleOrder[i] = m

\* distribute_event (lines 297-326) in which queue_event() of module `failing` raises:
\* the modules before it have been handed the event, the others are not reached
distribute_event_raising(e, failing) ==
  LET dup == EventHash(e) \in events_distributed
      sd == scope_distance[e]
      reached(m) == ModulePosition(m) < ModulePosition(failing)
  IN  /\ delivers(failing, e, dup, sd)
      /\ events_distributed' = events_distributed \cup {EventHash(e)}
      /\ mod_queue' = [m \in Modules |->
                         IF reached(m) /\ delivers(m, e, dup, sd) THEN Append(mod_queue[m], e)
                         ELSE mod_queue[m]]
      /\ event_produced' =
           IF \E m \in Modules : reached(m) /\ Module(m).type = "output" /\ delivers(m, e, dup, sd)
             THEN [event_produced EXCEPT ![e] = @ + 1]
             ELSE event_produced
      /\ last_dist' = [event |-> e, dup |-> dup, seq |-> last_dist.seq + 1, raised |-> TRUE]

\* lines 361-363, 385 and 390-391: an event is taken off the queue, distribute_event
\* raises, and the except clause around the while loop takes the exception
LoopDistributeRaises ==
  /\ loop_pc = "get"
  /\ event_queue # <<>>
  /\ event_queue' = Tail(event_queue)
  /\ event_counter' = event_counter + 1
  /\ \E failing \in FailingQueues : distribute_event_raising(Head(event_queue), failing)
  /\ dist_after_abort' = IF scan_status = "ABORTING" THEN dist_after_abort + 1
                                                       ELSE dist_after_abort
  /\ loop_pc' = "report"
  /\ loop_exit' = "Exception"
  /\ UNCHANGED <<worker_vars, stop_vars, snapshot_vars, status_vars, reports, report_result>>

\* lines 387-391: KeyboardInterrupt (scan.stop() is called) or another exception
\* ends the loop
LoopRaise(exception) ==
  /\ loop_pc \in {"top", "get", "status"}
  /\ loop_pc' = "report"
  /\ loop_exit' = exception
  /\ IF exception = "KeyboardInterrupt"
       THEN /\ stopping' = TRUE
            /\ scan_status' = "ABORTING"
       ELSE UNCHANGED stop_vars
  /\ ms_pc' = "idle"
  /\ UNCHANGED <<worker_vars, event_queue, events_distributed, mod_queue, last_dist,
                 event_produced, dist_after_abort, snapshot_vars, ms_passes, ms_finished, ms_default,
                 ms_snapshots, event_counter, reports, report_result>>

\* the modules whose report() may raise
FailingReports == {"scanmod", "outmod"}

\* lines 393-396: the finally block calls catch(mod.report, _force=True) for the
\* next module; report() returns or raises
LoopReport ==
  /\ loop_pc = "report"
  /\ LET done == {i \in 1..Len(ModuleOrder) : report_result[ModuleOrder[i]] # "none"}
         m == ModuleOrder[Cardinality(done) + 1]
     IN  /\ IF catch_calls(stopping, TRUE)
              THEN /\ reports' = [reports EXCEPT ![m] = @ + 1]
                   /\ \E ending \in {"return"} \cup (IF m \in FailingReports
                                                         THEN {"Exception"} ELSE {}) :
                        report_result' = [report_result EXCEPT ![m] = catch_result(ending)]
              ELSE /\ report_result' = [report_result EXCEPT ![m] = catch_result("not called")]
                   /\ UNCHANGED reports
         /\ loop_pc' = IF Cardinality(done) + 1 = Len(ModuleOrder) THEN "exited" ELSE "report"
  /\ UNCHANGED <<worker_vars, stop_vars, event_queue, events_distributed, mod_queue,
                 last_dist, event_produced, dist_after_abort, snapshot_vars, status_vars,
                 loop_exit, event_counter>>

\* the modules emitting events and the pool workers handling them
Workers ==
  \/ \E e \in ModuleEvents : \E o \in EmitOptions(e) : EmitEvent(e, o)
  \/ \E e \in Events : RunStart(e)
  \/ \E e \in Events : WaitPoll(e)
  \/ \E e \in Events : Shepherd(e)
  \/ \E e \in Events : Decide(e)
  \/ \E e \in Events : QueueStep(e)

Pipeline ==
  \/ Workers
  \/ StopScan
  \/ ShutdownPool

Next == Pipeline

Spec == Init /\ [][Next]_vars

\* a worker in the wait loop keeps polling (line 142, every 0.1 s)
InitPolling == Init /\ module_events \in {{3, 4}, {15}}

SpecPolling == InitPolling /\ [][Next]_vars /\ \A e \in Events : WF_vars(WaitPoll(e))

\* the workers together with the driver loop's dispatching, in a scan that is
\* not stopped
NextDispatch == Workers \/ LoopTop \/ LoopDistribute

InitDispatch == Init /\ module_events \in {{1, 2, 10}, {3, 4}}

SpecDispatch == InitDispatch /\ [][NextDispatch]_vars

\* the completion detector on its own
NextStatus ==
  \/ Activity
  \/ \E p \in PassesArgs : ModulesStatusCall(p) /\ UNCHANGED loop_vars
  \/ ModulesStatusPass

InitStatus == Init /\ module_events = {1, 2, 10}

SpecStatus == InitStatus /\ [][NextStatus]_vars

\* one module starts or stops running
ModuleActivity == Activity /\ status_detailed' = status_detailed /\ mod_running' \subseteq {"scanmod"}

\* the workers with the counter update of queue_event taken apart into its read
\* and its store, for a scan whose modules emit events of one type
NextCounter == Workers \/ \E e \in Events : QueueRead(e)

InitCounter == Init /\ module_events = {1, 2, 10}

SpecCounter == InitCounter /\ [][NextCounter]_vars

\* a module thread calling catch() while the scan may be stopped
NextCatch ==
  \/ \E callback \in CallbackEndings, force \in BOOLEAN, on_finish \in OnFinishCallbacks :
       CatchCall(callback, force, on_finish)
  \/ CatchTry
  \/ CatchFinish
  \/ StopScan

SpecCatch == InitStatus /\ [][NextCatch]_vars

\* the completion detector and the modules' own status
NextModuleStatus ==
  \/ ModuleQueueActivity
  \/ ModuleActivity
  \/ \E p \in PassesArgs : ModulesStatusCall(p) /\ UNCHANGED loop_vars
  \/ ModulesStatusPass

SpecModuleStatus == InitStatus /\ [][NextModuleStatus]_vars

\* the driver loop with the pipeline and the completion detector, for a scan
\* whose modules report running or idle
LoopStep ==
  \/ LoopTop
  \/ LoopDistribute
  \/ LoopEmpty
  \/ ModulesStatusPass
  \/ LoopStatusReturn
  \/ LoopReport

NextLoop ==
  \/ Pipeline
  \/ LoopStep
  \/ \E exception \in {"KeyboardInterrupt", "Exception"} : LoopRaise(exception)
  \/ LoopDistributeRaises
  \/ ModuleActivity

InitLoop == Init /\ module_events = {9}

(***************************************************************************)
(* A whole scan that is not aborted: the pipeline, the driver loop, the    *)
(* completion detector, the scan's status and the modules working off      *)
(* their inbound queues.                                                   *)
(***************************************************************************)
Min(a, b) == IF a <= b THEN a ELSE b

\* scan.status_detailed: the size of the manager's queue and the tasks of the pools
scan_status_detailed ==
  [queued_events |-> [k \in QueuedEventKeys |-> Min(Len(event_queue), MaxCount)],
   queued_tasks |-> [k \in QueuedTaskKeys |->
                       IF k = "event"
                         THEN Min(Cardinality({e \in Events : pc[e] \notin {"new", "done"}}),
                                  MaxCount)
                         ELSE 0]]

\* a pass of modules_status that reads this status
ScanStatusPass == ModulesStatusPassReading(scan_status_detailed)

\* the modules with an event in their inbound queue each take the next event off
\* it and handle it
ModulesTake ==
  LET takers == {m \in Modules : mod_queue[m] # <<>>}
  IN  /\ takers # {}
      /\ mod_queue' = [m \in Modules |-> IF m \in takers THEN Tail(mod_queue[m])
                                                            ELSE mod_queue[m]]
      /\ mod_running' = mod_running \cup takers
      /\ UNCHANGED <<worker_vars, stop_vars, event_queue, events_distributed, last_dist,
                     event_produced, dist_after_abort, status_detailed, mod_events,
                     status_vars, loop_vars>>

\* the modules are done with the events they were handling
ModulesRest ==
  /\ mod_running # {}
  /\ mod_running' = {}
  /\ UNCHANGED <<pipeline_vars, status_vars, loop_vars, status_detailed, mod_events>>

ModuleStep == ModulesTake \/ ModulesRest

\* a step of a pool worker, on one of the runs submitted and not ended
PoolStep ==
  \E e \in {r \in Events : pc[r] \notin {"new", "done"}} :
    RunStart(e) \/ WaitPoll(e) \/ Shepherd(e) \/ Decide(e) \/ QueueStep(e)

\* the steps of the loop thread
ScanLoopStep ==
  \/ LoopTop
  \/ LoopDistribute
  \/ LoopEmpty
  \/ ScanStatusPass
  \/ LoopStatusReturn
  \/ LoopReport

NextScan ==
  \/ Workers
  \/ ScanLoopStep
  \/ ModuleStep

InitScan == Init /\ module_events = {15}

\* the pool workers, the loop thread and the module threads keep running
SpecScan ==
  /\ InitScan /\ [][NextScan]_vars
  /\ WF_vars(PoolStep) /\ WF_vars(ScanLoopStep) /\ WF_vars(ModuleStep)

\* the loop is a running thread: it keeps taking steps until it has exited
SpecLoop == InitLoop /\ [][NextLoop]_vars /\ WF_vars(LoopStep)

(***************************************************************************)
(* The claims.                                                             *)
(***************************************************************************)
\* the event has been placed on the central queue (Spec never takes events off it)
InQueue(e) == \E i \in DOMAIN event_queue : event_queue[i] = e

\* accept_event has been called for e and returned ret
Accepted(e, ret) == \E i \in DOMAIN accept_log : accept_log[i] = <<e, ret>>

\* the two objects are the same event from the same module
SameEvent(a, b) ==
  /\ Event(a).type = Event(b).type
  /\ Event(a).data = Event(b).data
  /\ Event(a).module = Event(b).module

\* default duplicate suppression, not force-output
Suppressed(e) == Event(e).suppress_dupes /\ ~Event(e).force_output

\* C1: every event passed to emit_event has release_semaphore called on it exactly
\* once: never more than once, and once when the handling of the event has ended.
C1_ReleasedExactlyOnce ==
  \A e \in Events :
    /\ released[e] <= 1
    /\ pc[e] = "done" => released[e] = 1

\* C2: when the handling of an event passed to emit_event has ended, the event's
\* _resolved signal is set.
C2_ResolvedWhenHandled ==
  \A e \in Events : pc[e] = "done" => e \in resolved

\* C3 (as claimed): two emit_event calls for the same event (type other than DNS_NAME,
\* default duplicate suppression, not force-output), with any options, place it
\* on the central queue at most once.
C3_QueuedAtMostOnce ==
  \A a, b \in Events :
    (a # b /\ SameEvent(a, b) /\ Event(a).type # "DNS_NAME" /\ Suppressed(a) /\ Suppressed(b))
      => ~(InQueue(a) /\ InQueue(b))

\* C3 (amended): the same, when neither call uses the quick option.
C3_QueuedAtMostOnceNotQuick ==
  \A a, b \in Events :
    (a # b /\ SameEvent(a, b) /\ Event(a).type # "DNS_NAME" /\ Suppressed(a) /\ Suppressed(b)
       /\ ~opts[a].quick /\ ~opts[b].quick)
      => ~(InQueue(a) /\ InQueue(b))

\* C3 witness: both calls were made without quick, both runs reached accept_event,
\* one event was queued and the other rejected.
C3_Witness ==
  /\ ~opts[1].quick /\ ~opts[2].quick
  /\ pc[1] = "done" /\ pc[2] = "done"
  /\ InQueue(1) /\ Accepted(2, FALSE)

\* the accept_event call is on an event of a non-DNS module with duplicate
\* suppression that is not force-output
C4_Case(e) == Suppressed(e) /\ Event(e).module_type # "DNS"

\* C4: of the accept_event calls on events with the same accept-ledger identity (same
\* type, data and module; module not of DNS type; duplicates suppressed; not
\* force-output), the first to take the lock returns True and every other False.
C4_FirstAcceptWins ==
  \A i \in DOMAIN accept_log :
    LET e == accept_log[i][1]
        earlier == {j \in 1..(i - 1) : SameEvent(accept_log[j][1], e)}
    IN  (C4_Case(e) /\ \A j \in earlier : C4_Case(accept_log[j][1]))
          => (accept_log[i][2] <=> earlier = {})

\* C4 witness: two such calls were made on the same event.
C4_Witness ==
  \E i, j \in DOMAIN accept_log :
    /\ i < j
    /\ accept_log[i][1] = 1 /\ accept_log[j][1] = 2
    /\ accept_log[i][2] /\ ~accept_log[j][2]

\* the sources of the two events are the same event
SameSource(a, b) ==
  /\ Event(Event(a).source).type = Event(Event(b).source).type
  /\ Event(Event(a).source).data = Event(Event(b).source).data

\* C5: an accept_event call on an event of a DNS-type module (duplicates suppressed,
\* not force-output) returns True exactly when no earlier call was on the same
\* event with the same source: equal events with different sources are both
\* accepted, equal events with the same source are duplicates.
C5_DnsLineage ==
  \A i \in DOMAIN accept_log :
    LET e == accept_log[i][1]
        earlier == {j \in 1..(i - 1) : SameEvent(accept_log[j][1], e)
                                          /\ SameSource(accept_log[j][1], e)}
    IN  (Suppressed(e) /\ Event(e).module_type = "DNS")
          => (accept_log[i][2] <=> earlier = {})

\* C5 witness: the same DNS record reached accept_event from two different sources
\* and was accepted both times.
C5_Witness ==
  /\ SameEvent(6, 7) /\ ~SameSource(6, 7)
  /\ Accepted(6, TRUE) /\ Accepted(7, TRUE)

\* C5, the other case: the same DNS record with the same source is rejected.
C5_WitnessSameSource ==
  /\ SameEvent(7, 8) /\ SameSource(7, 8)
  /\ \/ Accepted(7, TRUE) /\ Accepted(8, FALSE)
     \/ Accepted(8, TRUE) /\ Accepted(7, FALSE)

\* the handling of the source of e has ended, so its scope_distance is final
SourceSettled(e) == IF Event(e).source = Root THEN TRUE ELSE pc[Event(e).source] = "done"

\* C7: a non-whitelisted event that went through resolution and parent
\* synchronization and is on the central queue has scope_distance equal to its
\* source's final scope_distance + 1 (stated for the events with host
\* information, whose distance the parent synchronization decides).
C7_ChildDistance ==
  \A e \in Events :
    (InQueue(e) /\ ~opts[e].quick /\ ~skip_dns_resolution(e) /\ ~event_whitelisted(e)
       /\ Event(e).host /\ SourceSettled(e))
      => scope_distance[e] = scope_distance[Event(e).source] + 1

\* e has just been through the scope shepherding step
Shepherded(e) == pc[e] = "decide" /\ ~skip_dns_resolution(e)

\* C8 (as claimed): every whitelisted event ends the scope shepherding step with
\* scope_distance 0, with or without host information, duplicate or not.
C8_WhitelistedZero ==
  \A e \in Events : (Shepherded(e) /\ event_whitelisted(e)) => scope_distance[e] = 0

\* C8 (amended): a whitelisted event that carries no host information, or that
\* is not a duplicate of an accepted event when the step runs, ends the scope
\* shepherding step with scope_distance 0.
C8_WhitelistedNotDuplicateZero ==
  [][\A e \in Events :
       (/\ pc[e] = "shepherd" /\ pc'[e] = "decide"
        /\ event_whitelisted(e)
        /\ \/ ~Event(e).host
           \/ ~(Suppressed(e) /\ hash_event(e) \in events_accepted))
         => scope_distance'[e] = 0]_vars

\* C8 witness: a whitelisted event with host information that is no duplicate
\* has been through the step, and so has a whitelisted event without host.
C8_Witness ==
  /\ Shepherded(4) /\ hash_event(4) \notin events_accepted /\ scope_distance[4] = 0
  /\ Shepherded(14) /\ scope_distance[14] = 0

(***************************************************************************)
(* Completion detection                                                    *)
(***************************************************************************)
IdleReading(r) == ~r.queued_events /\ ~r.queued_tasks /\ ~r.running

\* C6: a modules_status call with the default passes that has returned is
\* finished only after 5 passes that each read every queue count and task
\* count as zero and no module running; when it is not finished, the pass
\* that took the busy reading was its last one and all passes before it read
\* idle; while the call is still looping, finished is true and every pass so
\* far read idle, so a busy reading is never followed by another pass.
C6_FinishedAfterFiveIdlePasses ==
  ms_default =>
    /\ (ms_pc = "pass" =>
          /\ ms_finished
          /\ Len(ms_snapshots) < 5
          /\ \A i \in 1..Len(ms_snapshots) : IdleReading(ms_snapshots[i]))
    /\ (ms_pc = "idle" /\ ms_finished =>
          /\ Len(ms_snapshots) = 5
          /\ \A i \in 1..5 : IdleReading(ms_snapshots[i]))
    /\ (ms_pc = "idle" /\ ~ms_finished =>
          /\ Len(ms_snapshots) \in 1..5
          /\ ~IdleReading(ms_snapshots[Len(ms_snapshots)])
          /\ \A i \in 1..(Len(ms_snapshots) - 1) : IdleReading(ms_snapshots[i]))

\* a default call returned not finished at its third pass, after two idle
\* passes, and the scan reads idle again now
C6_Witness ==
  /\ ms_default
  /\ ms_pc = "idle"
  /\ ~ms_finished
  /\ Len(ms_snapshots) = 3
  /\ ms_snapshots[3].running
  /\ ~ms_snapshots[3].queued_events
  /\ ~ms_snapshots[3].queued_tasks
  /\ IdleReading(Reading(status_detailed, mod_running))

(***************************************************************************)
(* Dispatch                                                                *)
(***************************************************************************)
Distributing == last_dist'.seq # last_dist.seq

DistancePolicy(m, e, sd) ==
  IF Module(m).type = "output"
    THEN (0 <= sd /\ sd <= scope_report_distance)
           \/ (Event(e).force_output /\ Module(m).emit_graph_trail)
    ELSE 0 <= sd /\ sd <= scope_search_distance

\* C9: a distribute_event call appends the event once to the queue of every
\* module m for which (the event's hash was not yet in the distributed ledger
\* or m accepts duplicates) and m's distance policy holds, and leaves the
\* queue of every other module as it was.
C9_DeliveredExactlyWhen ==
  [][Distributing =>
       LET e == Head(event_queue)
           fresh == EventHash(e) \notin events_distributed
       IN  \A m \in Modules :
             mod_queue'[m] =
               IF (fresh \/ Module(m).accept_dupes) /\ DistancePolicy(m, e, scope_distance[e])
                 THEN Append(mod_queue[m], e)
                 ELSE mod_queue[m]]_vars

InModQueue(m, e) == \E i \in 1..Len(mod_queue[m]) : mod_queue[m][i] = e

\* a force-output duplicate beyond the report distance was distributed: only
\* the graph-trail output module, which accepts duplicates, received it
C9_Witness ==
  /\ last_dist.event = 10
  /\ last_dist.dup
  /\ scope_distance[10] > scope_search_distance
  /\ InModQueue("graphout", 10)
  /\ ~InModQueue("outmod", 10)
  /\ ~InModQueue("dupscan", 10)
  /\ ~InModQueue("scanmod", 10)
  /\ InModQueue("scanmod", 1) /\ InModQueue("outmod", 1)

\* C10: over a whole scan stats.event_produced is called at most once for any
\* given event, however many times the event is distributed, and only for
\* an event that was delivered to an output-type module.
C10_ProducedAtMostOnce ==
  \A e \in Events \cup {Root} :
    /\ event_produced[e] <= 1
    /\ Cardinality({x \in Events \cup {Root} : SameEvent(x, e) /\ event_produced[x] > 0}) <= 1
    /\ (event_produced[e] > 0 =>
          \E m \in Modules : Module(m).type = "output" /\ InModQueue(m, e))

(***************************************************************************)
(* Blacklisted events                                                      *)
(***************************************************************************)
\* the run of e is past the resolver and the blacklist evaluation
PastResolution(e) == pc[e] \in {"wait", "shepherd", "decide", "queue", "queue_read"}

\* the valid DNS children the resolver found for e
ValidDnsChildrenOf(e) ==
  {c \in Events : Event(c).made_by = e /\ Event(c).module_type = "DNS" /\ Event(c).valid}

\* C11: an event whose blacklist verdict is true carries the "blacklisted" tag
\* once its run is past the resolver, and a tagged event is never on the
\* central queue; the run of a tagged event ends before accept_event only by
\* cancellation or an abort_if veto; and when the run of a tagged event goes
\* through its last step with DNS resolution enabled and its scope distance
\* within the DNS search distance, every valid DNS child is passed to
\* emit_event (and evaluated against the blacklist in its own run).
C11_BlacklistedNotQueuedChildrenEmitted ==
  /\ [](\A e \in Events :
          /\ (event_blacklisted(e) /\ PastResolution(e)) => e \in blacklisted_tag
          /\ e \in blacklisted_tag => ~InQueue(e))
  /\ [][\A e \in Events :
          (e \in blacklisted_tag /\ pc[e] # "done" /\ pc'[e] = "done") =>
            /\ (~Accepted(e, TRUE)' /\ ~Accepted(e, FALSE)') => (stopping \/ opts[e].abort_if = "veto")
            /\ (pc[e] = "queue" /\ dns_resolution
                  /\ 0 <= scope_distance[e] /\ scope_distance[e] < dns_search_distance)
                 => \A c \in ValidDnsChildrenOf(e) : pc'[c] # "new"]_vars

\* a blacklisted name was accepted and not queued; its blacklisted child was
\* tagged in its own run and not queued, its clean child was queued, and the
\* record that failed validation was never emitted
C11_Witness ==
  /\ 15 \in blacklisted_tag /\ Accepted(15, TRUE) /\ pc[15] = "done" /\ ~InQueue(15)
  /\ 16 \in blacklisted_tag /\ Accepted(16, TRUE) /\ pc[16] = "done" /\ ~InQueue(16)
  /\ 17 \notin blacklisted_tag /\ InQueue(17)
  /\ pc[18] = "new"

(***************************************************************************)
(* The driver loop                                                         *)
(***************************************************************************)
\* the loop acts on the result of modules_status(), and is not interrupted
StatusActedOn ==
  /\ loop_pc = "status" /\ ms_pc = "idle"
  /\ loop_pc' # "status"
  /\ loop_exit' \notin {"KeyboardInterrupt", "Exception"}

\* C12: when the loop finds the queue empty and modules_status() reports
\* finished, then if an event was dequeued since the last finished round the
\* loop goes on: it queues the FINISHED sentinel to every module, resets
\* event_counter and returns to polling; it leaves the loop on a finished
\* report only if no event was dequeued in the round.
C12_FinishedRoundContinues ==
  [][(StatusActedOn /\ ms_finished) =>
       IF event_counter > 0
         THEN /\ loop_pc' = "top"
              /\ loop_exit' = "none"
              /\ event_counter' = 0
              /\ \A m \in Modules : mod_queue'[m] = Append(mod_queue[m], FINISHED)
         ELSE loop_exit' = "finished"]_vars

\* C13 (as claimed): once the scan status is ABORTING the loop passes no
\* event to distribute_event.
C13_NothingDistributedAfterAborting == dist_after_abort = 0

\* C13 (amended): once the scan status is ABORTING the loop passes at most
\* one more event to distribute_event, the one of the iteration in progress;
\* when the loop leaves through the ABORTING check, the queue is emptied and
\* none of the removed events is distributed; and the loop terminates.
C13_AbortingDrainsAndTerminates ==
  /\ [](dist_after_abort <= 1)
  /\ [][(loop_exit = "none" /\ loop_exit' = "aborting") =>
          /\ event_queue' = <<>>
          /\ mod_queue' = mod_queue
          /\ events_distributed' = events_distributed
          /\ last_dist' = last_dist]_vars
  /\ (scan_status = "ABORTING" ~> loop_pc = "exited")

\* the scan was stopped during an iteration, whose event was still distributed;
\* the next iteration removed event 9 from the queue undistributed and the
\* loop has terminated
C13_Witness ==
  /\ loop_pc = "exited" /\ loop_exit = "aborting"
  /\ dist_after_abort = 1
  /\ event_emitted[9] = 1 /\ EventHash(9) \notin events_distributed
  /\ event_queue = <<>>

\* C14: report() of every module is called exactly once when the loop has
\* terminated, however it was left and whether or not the scan is stopping,
\* never more than once and never before the loop is left; a report() that
\* raises is logged by catch() and the remaining modules are still reported.
C14_EveryModuleReportsOnce ==
  /\ \A m \in Modules : reports[m] <= 1
  /\ loop_pc \notin {"report", "exited"} => \A m \in Modules : reports[m] = 0
  /\ loop_pc = "exited" =>
       \A m \in Modules : reports[m] = 1 /\ report_result[m] \in {"returned", "error: logged"}

\* the loop was interrupted, the scan is stopping, the first module's report()
\* raised and every module was still reported once
C14_Witness ==
  /\ loop_pc = "exited" /\ loop_exit = "KeyboardInterrupt" /\ stopping
  /\ report_result["scanmod"] = "error: logged"
  /\ \A m \in Modules : reports[m] = 1

(***************************************************************************)
(* Parent synchronization                                                  *)
(***************************************************************************)
\* the completion signal of the source of e has fired (the root event is not
\* handled by the pipeline: it is final from the start)
ParentResolved(e) == IF Event(e).source = Root THEN TRUE ELSE Event(e).source \in resolved

\* C15: a run leaves the parent-synchronization wait and fixes the event's
\* scope_distance from its source only after the completion signal of the
\* source event has fired.
C15_ChildClassifiedAfterParent ==
  [][\A e \in Events :
       (pc[e] = "wait" /\ pc'[e] = "shepherd") => ParentResolved(e)]_vars

\* C16: a run that is in the parent-synchronization wait while the source's
\* completion signal has fired and the scan is not stopping goes on to the
\* scope shepherding, unless the scan starts stopping.
C16_WaitEnds ==
  \A e \in Events :
    (pc[e] = "wait" /\ ParentResolved(e) /\ ~stopping) ~> (pc[e] = "shepherd" \/ stopping)

\* the DNS child 6 of the speculated name 5 has left the wait, its source's
\* signal has fired, the scan is not stopping
C16_Witness ==
  /\ pc[6] = "shepherd" /\ 5 \in resolved /\ ~stopping
  /\ scope_distance[6] = scope_distance[5] + 1

\* the events _emit_event builds while handling e
ChildrenOf(e) == {c \in Events : Event(c).made_by = e}

\* accept_event has not been called for e
NeverAccepted(e) == ~Accepted(e, TRUE) /\ ~Accepted(e, FALSE)

C18_OnSuccessIffQueued ==
  \A e \in Events :
    /\ on_success_calls[e] <= 1
    /\ on_success_calls[e] > 0 => InQueue(e)
    /\ (pc[e] = "done" /\ opts[e].on_success /\ InQueue(e)) => on_success_calls[e] = 1

\* the run of e ended at the abort_if step
Vetoed(e) == opts[e].abort_if = "veto" /\ run_result[e] = "returned"

\* C19: a run whose abort_if returns true ends at that step: the permit is
\* released, and the accepted ledger, the central queue, the per-type
\* counters, the on_success count and the event_emitted count are left as
\* they were; a run that ended so never reached accept_event, never queued
\* the event and emitted no child.
C19_VetoLeavesNoTrace ==
  /\ [][\A e \in Events :
          (pc[e] = "decide" /\ opts[e].abort_if = "veto" /\ pc'[e] # "decide") =>
            /\ pc'[e] = "done"
            /\ released'[e] = released[e] + 1
            /\ events_accepted' = events_accepted /\ accept_log' = accept_log
            /\ event_queue' = event_queue
            /\ queued_event_types' = queued_event_types
            /\ on_success_calls' = on_success_calls
            /\ event_emitted' = event_emitted
            /\ \A c \in ChildrenOf(e) : pc'[c] = "new"]_vars
  /\ [](\A e \in Events :
          Vetoed(e) =>
            /\ released[e] = 1
            /\ NeverAccepted(e)
            /\ ~InQueue(e)
            /\ event_emitted[e] = 0 /\ on_success_calls[e] = 0
            /\ \A c \in ChildrenOf(e) : pc[c] = "new")

\* the URL event was vetoed: its speculated name and its DNS child were never
\* emitted
C19_Witness ==
  /\ Vetoed(3) /\ pc[3] = "done" /\ released[3] = 1
  /\ pc[5] = "new" /\ pc[6] = "new"

\* C20: stats.event_emitted is reported at most once for an event, and it has
\* been reported exactly when the event's run has ended after placing the
\* event on the central queue; the children of the run have been emitted by
\* then.
C20_EmittedIffQueuedByRun ==
  \A e \in Events :
    /\ event_emitted[e] <= 1
    /\ event_emitted[e] = 1 <=> (pc[e] = "done" /\ ~opts[e].quick /\ InQueue(e))
    /\ event_emitted[e] = 1 =>
         /\ \A c \in ChildrenOf(e) : Event(c).module = "host" => pc[c] # "new"
         /\ (dns_resolution /\ 0 <= scope_distance[e] /\ scope_distance[e] < dns_search_distance)
              => \A c \in ValidDnsChildrenOf(e) : pc[c] # "new"

\* the blacklisted name was accepted and not reported; its clean child was
\* queued and reported once, its blacklisted child was not
C20_Witness ==
  /\ Accepted(15, TRUE) /\ pc[15] = "done" /\ event_emitted[15] = 0
  /\ InQueue(17) /\ event_emitted[17] = 1
  /\ Accepted(16, TRUE) /\ pc[16] = "done" /\ event_emitted[16] = 0
\* the events _emit_event built while handling e and passed to emit_event
EmittedChildrenOf(e) == {c \in ChildrenOf(e) : pc[c] # "new"}

\* C21: the run of an event passes child events (the speculated DNS_NAME of its
\* host, the events of its DNS records) to emit_event only when the event's scope
\* distance d satisfies 0 <= d < dns_search_distance.
C21_ChildrenOnlyWithinSearchDistance ==
  \A e \in Events :
    (pc[e] = "done" /\ EmittedChildrenOf(e) # {})
      => (0 <= scope_distance[e] /\ scope_distance[e] < dns_search_distance)

\* some module's status shows incoming or outgoing events
ModuleEventsQueued ==
  \E m \in Modules : mod_events[m].incoming > 0 \/ mod_events[m].outgoing > 0

\* C22: modules_status returns finished = true only if the passes it made saw every
\* module's incoming and outgoing event counts at zero, every pool's task count at
\* zero and no module running; a module with queued events that is not marked
\* running prevents finished = true.  Stated for the pass that returns.
C22_FinishedOnlyWithEmptyModuleQueues ==
  [][(ms_pc = "pass" /\ ms_pc' = "idle" /\ ms_finished')
       => (IdleReading(Reading(status_detailed, mod_running)) /\ ~ModuleEventsQueued)]_vars

\* C23: catch() raises no failure of the callback to its caller (ScanCancelledError,
\* BrokenPipeError and other Exceptions are swallowed, KeyboardInterrupt becomes a stop
\* of the scan); every call records exactly one function_called entry, whether the
\* callback returned, failed or was skipped because the scan is stopping; and the
\* _on_finish_callback is still called afterwards, its own exception swallowed too.
C23_CatchSwallowsRecordsFinishes ==
  /\ [](/\ catch_raised = "none"
        /\ catch_pc = "try" => function_called + 1 = catch_invocations
        /\ catch_pc # "try" => function_called = catch_invocations
        /\ catch_pc = "idle" => on_finish_calls = on_finish_due
        /\ catch_pc # "idle" => on_finish_calls + (IF catch_args.on_finish # "none" THEN 1 ELSE 0)
                                   = on_finish_due)
  /\ [][(catch_pc = "try" /\ catch_args.callback = "KeyboardInterrupt"
           /\ catch_calls(stopping, catch_args.force) /\ catch_pc' # "try")
          => (stopping' /\ catch_pc' = "finish")]_vars

\* a call whose callback raised an Exception and whose finish callback raised too has
\* returned, with both records made, in a scan that is not stopping
C23_Witness ==
  /\ catch_pc = "idle"
  /\ catch_invocations = 1
  /\ ~stopping
  /\ catch_args.callback = "Exception"
  /\ catch_args.on_finish = "Exception"
  /\ function_called = 1
  /\ on_finish_calls = 1
  /\ catch_raised = "none"

\* number of events of type t placed on the central queue (no event is taken off
\* it in SpecCounter)
Placed(t) == Cardinality({i \in DOMAIN event_queue : Event(event_queue[i]).type = t})

\* C24: under any interleaving of queue_event calls, for every event type the
\* queued_event_types counter equals the number of events of that type placed on
\* the central queue; no increment is lost.
C24_CounterMatchesQueue ==
  \A t \in EventTypes : queued_event_types[t] = Placed(t)

\* C25: a runtime error raised while the driver loop handles one dequeued event (a
\* module's queue_event raising inside distribute_event) ends the handling of that
\* event only: the loop keeps running and goes on to its next iteration.
C25_LoopSurvivesDistributeError ==
  [][(last_dist'.seq # last_dist.seq /\ last_dist'.raised)
       => (loop_pc' = "top" /\ loop_exit' = "none")]_vars

\* some pipeline run is submitted to the event pool and has not ended
PoolBusy == \E e \in Events : pc[e] \notin {"new", "done"}

\* C26: in a scan that is never aborted, with DNS resolution enabled, finitely many
\* events, a resolver that returns and modules that drain their queues and stop
\* running, every pipeline run submitted to the event pool eventually ends (the pool
\* gets idle again) and loop_until_finished eventually terminates.
C26_RunsEndAndLoopTerminates ==
  /\ PoolBusy ~> ~PoolBusy
  /\ <>(loop_pc = "exited")

\* the scan has emitted its event, the run of that event and the runs of its DNS
\* children have ended, one child was distributed, and the loop has left through a
\* finished report and run the report hooks
C26_Witness ==
  /\ dns_resolution
  /\ \A e \in {15, 16, 17} : pc[e] = "done" /\ run_result[e] # "none"
  /\ EventHash(17) \in events_distributed
  /\ \A m \in Modules : mod_queue[m] = <<>> /\ m \notin mod_running
  /\ ~PoolBusy
  /\ loop_pc = "exited"
  /\ loop_exit = "finished"

====
